---- MODULE Spec2Model ----
(***************************************************************************)
(* Product-and-order catalogue backend: the Product and Order services     *)
(* (src/products.js, src/orders.js) over their two Mongoose collections,   *)
(* and the request handlers of src/api.js that call them.                  *)
(*                                                                         *)
(* A stored document is a record; a collection is a set of documents, at   *)
(* most one per _id (the collection's primary key).  A request body or a   *)
(* change object is a record too: its DOMAIN is Object.keys of the object. *)
(* Identifiers are cuid strings in the code; here they are the numbers     *)
(* 1..Max*, ordered as the strings are by sort({_id: 1}).                  *)
(***************************************************************************)
EXTENDS Integers, Sequences, FiniteSets, TLC

VARIABLES products, orders, resp, edits

vars == <<products, orders, resp, edits>>

\* ---------------------------------------------------------------- bounds
MaxProducts == 2
MaxOrders == 2
MaxVersion == 1
MaxOffset == 2
MaxLimit == 2

ProductIds == 1..MaxProducts
OrderIds == 1..MaxOrders

\* ------------------------------------------------------------- constants
DefaultOffset == 0
DefaultLimit == 25

null == [isNull |-> TRUE]
NoKeys == [k \in {} |-> 0]

\* A set of numbers as the ascending sequence of its members.
RECURSIVE Ascending(_)
Ascending(S) ==
  IF S = {} THEN << >>
  ELSE LET m == CHOOSE x \in S : \A y \in S : x <= y
       IN <<m>> \o Ascending(S \ {m})

Range(s) == {s[i] : i \in 1..Len(s)}

\* ------------------------------------------------------- Product schema
Urls == [regular |-> "r", small |-> "s", thumb |-> "t"]
Links == [self |-> "l", html |-> "h"]
User == [id |-> "u", first_name |-> "f", username |-> "n"]
Studio == <<[title |-> "studio"]>>

ProductPaths == {"_id", "likes", "urls", "links", "user", "tags"}
ProductArrays == {"tags"}

\* new Product(fields): schema paths of fields, then the defaults: _id from
\* cuid, tags an empty array, the version key 0.
NewProduct(id, fields) ==
  [k \in ((DOMAIN fields \cap ProductPaths) \cup {"_id", "tags", "__v"}) |->
     IF k \in DOMAIN fields \cap ProductPaths THEN fields[k]
     ELSE IF k = "_id" THEN id
     ELSE IF k = "tags" THEN << >>
     ELSE 0]

Has(obj, keys) == keys \subseteq DOMAIN obj

\* const { key = default } = options.
Opt(options, key, default) == IF key \in DOMAIN options THEN options[key] ELSE default

\* The schema's validators: likes, every member of urls and links, id,
\* first_name and username of user, and the title of every tag are required.
ProductValid(doc) ==
  /\ Has(doc, {"likes", "urls", "links", "user"})
  /\ Has(doc.urls, {"regular", "small", "thumb"})
  /\ Has(doc.links, {"self", "html"})
  /\ Has(doc.user, {"id", "first_name", "username"})
  /\ \A i \in 1..Len(doc.tags) : Has(doc.tags[i], {"title"})

\* ------------------------------------------------- collection primitives
\* Model.findById(_id): the document, or null.
FindById(coll, id) ==
  IF \E d \in coll : d._id = id THEN CHOOSE d \in coll : d._id = id ELSE null

\* Query.sort({_id: 1}) over the documents a find() matched.
SortById(docs) ==
  LET ids == Ascending({d._id : d \in docs})
  IN [i \in 1..Len(ids) |-> CHOOSE d \in docs : d._id = ids[i]]

\* Query.skip(n).
Skip(s, n) == IF n >= Len(s) THEN << >> ELSE SubSeq(s, n + 1, Len(s))

\* Query.limit(n): a limit of 0 is no limit.
Limit(s, n) == IF n = 0 \/ n >= Len(s) THEN s ELSE SubSeq(s, 1, n)

\* A delete whose filter matches every document.
DeleteEvery(coll, id) ==
  [coll |-> {},
   result |-> [acknowledged |-> TRUE, deletedCount |-> Cardinality(coll)]]

\* Model.deleteOne({_id}): the collection without the document, and the
\* driver's result object.
DeleteOne(coll, id) ==
  [coll |-> {d \in coll : d._id # id},
   result |-> [acknowledged |-> TRUE,
               deletedCount |-> Cardinality({d \in coll : d._id = id})]]

\* The insert of a new document's save(): _id is the primary key.
InsertOne(coll, doc) ==
  IF \E d \in coll : d._id = doc._id
  THEN [coll |-> coll, error |-> "MongoServerError"]
  ELSE [coll |-> coll \cup {doc}, error |-> "none"]

\* An update that names the loaded version in every where-clause.
UpdateOneOptimistic(coll, id, versioned, v, delta) ==
  LET hit == {d \in coll : d._id = id /\ d.__v = v}
      set(d) == [k \in DOMAIN d |->
                   IF k \in DOMAIN delta THEN delta[k]
                   ELSE IF k = "__v" THEN d.__v + 1
                   ELSE d[k]]
  IN IF hit = {} THEN [coll |-> coll, error |-> "VersionError"]
     ELSE [coll |-> (coll \ hit) \cup {set(d) : d \in hit}, error |-> "none"]

\* The update of a loaded document's save(): the modified paths are $set on
\* the document the where-clause matches; the where-clause names the version
\* the document was loaded at when an array path is overwritten whole, and
\* that update increments the version key.
UpdateOne(coll, id, versioned, v, delta) ==
  LET hit == {d \in coll : d._id = id /\ (versioned => d.__v = v)}
      set(d) == [k \in DOMAIN d |->
                   IF k \in DOMAIN delta THEN delta[k]
                   ELSE IF k = "__v" /\ versioned THEN d.__v + 1
                   ELSE d[k]]
  IN IF hit = {}
     THEN [coll |-> coll,
           error |-> IF versioned THEN "VersionError" ELSE "DocumentNotFoundError"]
     ELSE [coll |-> (coll \ hit) \cup {set(d) : d \in hit}, error |-> "none"]

\* What the releases of the library do with an assignment to _id of a loaded
\* document: the server refuses the update, the assignment is dropped, or
\* the update is addressed to the assigned identifier.
IdWrites(change) ==
  IF "_id" \in DOMAIN change THEN {"refused", "dropped", "readdressed"} ELSE {"dropped"}

\* A save that writes an assigned _id onto the loaded document.
SaveLoadedIdWritten(coll, arrays, loaded, assigned, dirty, valid, idWrite) ==
  IF ~valid THEN [coll |-> coll, error |-> "ValidationError"]
  ELSE UpdateOne(coll, loaded._id, dirty \cap arrays # {}, loaded.__v,
                 [k \in dirty |-> assigned[k]])

\* document.save() of a loaded document after assignments: validation of the
\* document in memory, then the update of the modified paths.
SaveLoaded(coll, arrays, loaded, assigned, dirty, valid, idWrite) ==
  LET paths == IF idWrite = "dropped" THEN dirty \ {"_id"} ELSE dirty
      delta == [k \in paths |-> assigned[k]]
      where == IF idWrite = "readdressed" THEN assigned._id ELSE loaded._id
  IN IF ~valid THEN [coll |-> coll, error |-> "ValidationError"]
     ELSE IF "_id" \in paths /\ idWrite = "refused"
     THEN [coll |-> coll, error |-> "MongoServerError"]
     ELSE UpdateOne(coll, where, paths \cap arrays # {}, loaded.__v, delta)

\* ------------------------------------------------------ Product service
\* list({offset, limit, tag}).
ProductsList(coll, opts) ==
  LET query(d) == Has(opts, {"tag"}) =>
                    \E i \in 1..Len(d.tags) : d.tags[i].title = opts.tag
  IN Limit(Skip(SortById({d \in coll : query(d)}), Opt(opts, "offset", DefaultOffset)),
           Opt(opts, "limit", DefaultLimit))

ProductsGet(coll, id) == FindById(coll, id)

\* create(fields): new Product(fields).save().
ProductsCreate(coll, id, fields) ==
  LET product == NewProduct(id, fields)
  IN IF ~ProductValid(product)
     THEN [coll |-> coll, error |-> "ValidationError", ret |-> null]
     ELSE [coll |-> InsertOne(coll, product).coll,
           error |-> InsertOne(coll, product).error, ret |-> product]

\* An assignment that merges an object into the object it replaces.
AssignMerged(doc, change, paths) ==
  LET merged(a, b) == [k \in DOMAIN a \cup DOMAIN b |-> IF k \in DOMAIN b THEN b[k] ELSE a[k]]
  IN [k \in DOMAIN doc |->
        IF k \in DOMAIN change \cap paths
        THEN IF k \in {"urls", "links", "user"} THEN merged(doc[k], change[k])
             ELSE change[k]
        ELSE doc[k]]

\* Object.keys(change).forEach(key => product[key] = change[key]).
Assign(doc, change, paths) ==
  [k \in DOMAIN doc |-> IF k \in DOMAIN change \cap paths THEN change[k] ELSE doc[k]]

\* edit(_id, change) from the loaded product on: the assignments and save().
\* A null product has no properties to assign and no save method.
ProductsEditSave(coll, product, change, idWrite) ==
  IF product = null THEN [coll |-> coll, error |-> "TypeError", ret |-> null]
  ELSE LET assigned == Assign(product, change, ProductPaths)
           dirty == {k \in DOMAIN product : assigned[k] # product[k]}
           saved == SaveLoaded(coll, ProductArrays, product, assigned, dirty,
                               ProductValid(assigned), idWrite)
       IN [coll |-> saved.coll, error |-> saved.error,
           ret |-> IF saved.error = "none" THEN assigned ELSE null]

ProductsEdit(coll, id, change, idWrite) ==
  ProductsEditSave(coll, ProductsGet(coll, id), change, idWrite)

ProductsDestroy(coll, id) == DeleteOne(coll, id)

\* --------------------------------------------------------- Order schema
OrderStatuses == {"CREATED", "PENDING", "COMPLETED"}
OrderPaths == {"_id", "buyerEmail", "products", "status"}
OrderArrays == {"products"}

\* new Order(fields): schema paths of fields, then the defaults: _id from
\* cuid, products an empty array, status CREATED, the version key 0.
NewOrder(id, fields) ==
  [k \in ((DOMAIN fields \cap OrderPaths) \cup {"_id", "products", "status", "__v"}) |->
     IF k \in DOMAIN fields \cap OrderPaths THEN fields[k]
     ELSE IF k = "_id" THEN id
     ELSE IF k = "products" THEN << >>
     ELSE IF k = "status" THEN "CREATED"
     ELSE 0]

\* The validators without the enum of status.
OrderValidNoEnum(doc) ==
  /\ Has(doc, {"buyerEmail"})
  /\ doc.buyerEmail # ""

\* The schema's validators: buyerEmail is a required string (the empty
\* string is not one), status is one of the enum's values.  required on the
\* products path is a validator of each entry of the array; an entry here is
\* always an identifier.
OrderValid(doc) ==
  /\ Has(doc, {"buyerEmail"})
  /\ doc.buyerEmail # ""
  /\ doc.status \in OrderStatuses

\* -------------------------------------------------------- Order service
\* A populate that gives up at the first identifier that names no product.
PopulateUntilMissing(order, prods) ==
  LET n == Cardinality({i \in 1..Len(order.products) :
                          \A j \in 1..i : \E d \in prods : d._id = order.products[j]})
  IN [order EXCEPT !.products = [i \in 1..n |-> FindById(prods, order.products[i])]]

\* populate('products'): each identifier replaced by the product it names;
\* an identifier that names no product leaves no entry.
Populate(order, prods) ==
  LET refs == SelectSeq(order.products, LAMBDA p : \E d \in prods : d._id = p)
  IN [order EXCEPT !.products = [i \in 1..Len(refs) |-> FindById(prods, refs[i])]]

\* list({offset, limit, productId, status}).
OrdersList(coll, opts) ==
  LET productQuery(d) == Has(opts, {"productId"}) => opts.productId \in Range(d.products)
      statusQuery(d) == Has(opts, {"status"}) => d.status = opts.status
  IN Limit(Skip(SortById({d \in coll : productQuery(d) /\ statusQuery(d)}),
                Opt(opts, "offset", DefaultOffset)),
           Opt(opts, "limit", DefaultLimit))

\* get(_id): findById(_id).populate('products').
OrdersGet(coll, prods, id) ==
  IF FindById(coll, id) = null THEN null ELSE Populate(FindById(coll, id), prods)

\* create(fields): new Order(fields).save(), then populate.
OrdersCreate(coll, prods, id, fields) ==
  LET order == NewOrder(id, fields)
  IN IF ~OrderValid(order)
     THEN [coll |-> coll, error |-> "ValidationError", ret |-> null]
     ELSE [coll |-> InsertOne(coll, order).coll,
           error |-> InsertOne(coll, order).error, ret |-> Populate(order, prods)]

\* edit(_id, change) from the loaded order on.  The order was loaded with
\* its products populated: an assigned array of identifiers differs from the
\* populated array unless both are empty.
OrdersEditSave(coll, order, change, idWrite) ==
  IF order = null THEN [coll |-> coll, error |-> "TypeError", ret |-> null]
  ELSE LET assigned == Assign(order, change, OrderPaths)
           dirty == {k \in DOMAIN change \cap OrderPaths :
                       IF k = "products"
                       THEN ~(change.products = << >> /\ order.products = << >>)
                       ELSE change[k] # order[k]}
           saved == SaveLoaded(coll, OrderArrays, order, assigned, dirty,
                               OrderValid(assigned), idWrite)
       IN [coll |-> saved.coll, error |-> saved.error,
           ret |-> IF saved.error = "none" THEN assigned ELSE null]

OrdersEdit(coll, prods, id, change, idWrite) ==
  OrdersEditSave(coll, OrdersGet(coll, prods, id), change, idWrite)

OrdersDestroy(coll, id) == DeleteOne(coll, id).coll

Ids(coll) == {d._id : d \in coll}

\* ------------------------------------------------------- request inputs
With(obj, key, val) ==
  [k \in DOMAIN obj \cup {key} |-> IF k = key THEN val ELSE obj[k]]

Without(obj, key) == [k \in DOMAIN obj \ {key} |-> obj[k]]

Likes == {1, 2}

FullProduct(l) == [likes |-> l, urls |-> Urls, links |-> Links, user |-> User]

\* Bodies of POST /products: complete ones, and ones a validator rejects.
ProductBodies ==
  {FullProduct(l) : l \in Likes}
    \cup {Without(FullProduct(1), "likes"),
          With(FullProduct(1), "urls", [regular |-> "r"]),
          With(FullProduct(1), "tags", <<[name |-> "studio"]>>)}

\* Bodies of PUT /products/:id.
ProductChanges ==
  {NoKeys, [tags |-> Studio], [urls |-> [regular |-> "r2"]]}
    \cup {[likes |-> l] : l \in Likes}
    \cup {[_id |-> i, likes |-> 2] : i \in ProductIds}

\* Bodies of POST /orders.
OrderBodies ==
  {[buyerEmail |-> "a@b.com", products |-> <<2, 1>>],
   [buyerEmail |-> "a@b.com", products |-> <<2, 1>>, status |-> "PENDING"],
   [buyerEmail |-> "a@b.com"],
   [buyerEmail |-> "a@b.com", products |-> << >>],
   [products |-> <<2, 1>>],
   [buyerEmail |-> "a@b.com", products |-> <<2, 1>>, status |-> "BOGUS"]}

\* Bodies of PUT /orders/:id.
OrderChanges ==
  {NoKeys, [buyerEmail |-> ""]}
    \cup {[status |-> st] : st \in OrderStatuses \cup {"BOGUS"}}
    \cup {[_id |-> i, status |-> "PENDING"] : i \in OrderIds}

\* Query strings of GET /products and GET /orders.
ProductQueries == {NoKeys, [tag |-> "studio"], [offset |-> 1, limit |-> 1]}

OrderQueries ==
  {NoKeys, [productId |-> 2], [offset |-> 1, limit |-> 1],
   [limit |-> 1, productId |-> 1, status |-> "CREATED"]}

\* -------------------------------------------------------------- handlers
\* The failure responder's JSON error body.
FailureBody(error) == [error |-> error]

\* What a handler leaves behind: the service call made and its arguments, how
\* it ended, what it returned, and the body handed to res.json.  A rejected call is
\* forwarded by the handlers' wrapper to the failure responder.
Reply(op, coll, id, args, error, ret, json) ==
  [op |-> op, coll |-> coll, id |-> id, args |-> args, error |-> error, ret |-> ret,
   json |-> IF error = "none" THEN json ELSE FailureBody(error)]

Idle == [pc |-> "idle"]
Sessions == {"a", "b"}

Versions(coll) == \A d \in coll : d.__v <= MaxVersion

\* GET /products.  Number(offset), Number(limit) of the query string.
listProducts(query) ==
  /\ resp' = Reply("list", "Product", 0, query, "none", ProductsList(products, query),
                   ProductsList(products, query))
  /\ UNCHANGED <<products, orders, edits>>

\* GET /products/:id.  No product: next(), and no body.
getProduct(id) ==
  /\ resp' = Reply("get", "Product", id, NoKeys, "none", ProductsGet(products, id),
                   IF ProductsGet(products, id) = null THEN [next |-> TRUE]
                   ELSE ProductsGet(products, id))
  /\ UNCHANGED <<products, orders, edits>>

\* POST /products.  cuid() returns an identifier no stored product has.
createProduct(body) ==
  \E id \in ProductIds \ {d._id : d \in products} :
    LET out == ProductsCreate(products, id, body)
    IN /\ products' = out.coll
       /\ resp' = Reply("create", "Product", id, body, out.error, out.ret, out.ret)
       /\ UNCHANGED <<orders, edits>>

\* PUT /products/:id.
editProduct(id, change) ==
  \E idWrite \in IdWrites(change) :
    LET out == ProductsEdit(products, id, change, idWrite)
    IN /\ Versions(out.coll)
       /\ products' = out.coll
       /\ resp' = Reply("edit", "Product", id, change, out.error, out.ret, out.ret)
       /\ UNCHANGED <<orders, edits>>

\* DELETE /products/:id.
deleteProduct(id) ==
  LET response == ProductsDestroy(products, id)
  IN /\ products' = response.coll
     /\ resp' = Reply("destroy", "Product", id, NoKeys, "none", response.result,
                      response.result)
     /\ UNCHANGED <<orders, edits>>

\* POST /orders.
createOrder(body) ==
  \E id \in OrderIds \ {d._id : d \in orders} :
    LET out == OrdersCreate(orders, products, id, body)
    IN /\ orders' = out.coll
       /\ resp' = Reply("create", "Order", id, body, out.error, out.ret, out.ret)
       /\ UNCHANGED <<products, edits>>

\* GET /orders.
listOrders(query) ==
  /\ resp' = Reply("list", "Order", 0, query, "none", OrdersList(orders, query),
                   OrdersList(orders, query))
  /\ UNCHANGED <<products, orders, edits>>

\* Orders.get(_id): exported by the service; no route calls it.
getOrder(id) ==
  /\ resp' = Reply("get", "Order", id, NoKeys, "none", OrdersGet(orders, products, id),
                   [none |-> TRUE])
  /\ UNCHANGED <<products, orders, edits>>

\* PUT /orders/:id.
editOrder(id, change) ==
  \E idWrite \in IdWrites(change) :
    LET out == OrdersEdit(orders, products, id, change, idWrite)
    IN /\ Versions(out.coll)
       /\ orders' = out.coll
       /\ resp' = Reply("edit", "Order", id, change, out.error, out.ret, out.ret)
       /\ UNCHANGED <<products, edits>>

\* DELETE /orders/:id.
deleteOrder(id) ==
  /\ orders' = OrdersDestroy(orders, id)
  /\ resp' = Reply("destroy", "Order", id, NoKeys, "none", [undefined |-> TRUE],
                   [success |-> TRUE])
  /\ UNCHANGED <<products, edits>>

\* ------------------------------------------------------- specification
\* The collections are empty, nothing has been answered, no edit is under way.
Init ==
  /\ products = {}
  /\ orders = {}
  /\ resp = [op |-> "none", coll |-> "none", id |-> 0, args |-> NoKeys, error |-> "none",
             ret |-> null, json |-> null]
  /\ edits = [s \in Sessions |-> Idle]

\* One request at a time, each handled to its end.
Next ==
  \/ \E q \in ProductQueries : listProducts(q)
  \/ \E id \in ProductIds : getProduct(id)
  \/ \E b \in ProductBodies : createProduct(b)
  \/ \E id \in ProductIds, c \in ProductChanges : editProduct(id, c)
  \/ \E id \in ProductIds : deleteProduct(id)
  \/ \E b \in OrderBodies : createOrder(b)
  \/ \E q \in OrderQueries : listOrders(q)
  \/ \E id \in OrderIds : getOrder(id)
  \/ \E id \in OrderIds, c \in OrderChanges : editOrder(id, c)
  \/ \E id \in OrderIds : deleteOrder(id)

Spec == Init /\ [][Next]_vars

\* ------------------------------------------------------ concurrent edits
\* A PUT handler awaits the database twice: edit's get, and save.  Other
\* requests are served between the two.  An edit under way holds the loaded
\* document and the change; after save it holds how save ended.
ConcurrentChanges(coll) ==
  IF coll = "Product"
  THEN {[likes |-> 2], [likes |-> 3], [tags |-> Studio], [tags |-> <<[title |-> "art"]>>]}
  ELSE {[status |-> "PENDING"], [status |-> "COMPLETED"], [products |-> <<1>>],
        [products |-> <<2>>]}

\* edit up to the end of `await get(_id)`.
loadEdit(s, coll, id, change) ==
  /\ edits[s].pc = "idle"
  /\ edits' = [edits EXCEPT ![s] =
                 [pc |-> "loaded", coll |-> coll, id |-> id, change |-> change,
                  doc |-> IF coll = "Product" THEN ProductsGet(products, id)
                          ELSE OrdersGet(orders, products, id)]]
  /\ UNCHANGED <<products, orders, resp>>

\* edit from the assignments to the end of `await save()`.
saveEdit(s) ==
  /\ edits[s].pc = "loaded"
  /\ \E idWrite \in IdWrites(edits[s].change) :
       LET e == edits[s]
           out == IF e.coll = "Product"
                  THEN ProductsEditSave(products, e.doc, e.change, idWrite)
                  ELSE OrdersEditSave(orders, e.doc, e.change, idWrite)
       IN /\ Versions(out.coll)
          /\ products' = IF e.coll = "Product" THEN out.coll ELSE products
          /\ orders' = IF e.coll = "Order" THEN out.coll ELSE orders
          /\ edits' = [edits EXCEPT ![s] =
                         [pc |-> "saved", coll |-> e.coll, id |-> e.id,
                          change |-> e.change, doc |-> e.doc,
                          error |-> out.error, ret |-> out.ret]]
  /\ UNCHANGED resp

\* The handler's res.json(product), or the failure responder.
replyEdit(s) ==
  /\ edits[s].pc = "saved"
  /\ resp' = Reply("edit", edits[s].coll, edits[s].id, edits[s].change,
                   edits[s].error, edits[s].ret, edits[s].ret)
  /\ edits' = [edits EXCEPT ![s] = Idle]
  /\ UNCHANGED <<products, orders>>

\* One product and one order that references it are stored.
ConcInit ==
  /\ products = {NewProduct(1, FullProduct(1))}
  /\ orders = {NewOrder(1, [buyerEmail |-> "a@b.com", products |-> <<2, 1>>])}
  /\ resp = [op |-> "none", coll |-> "none", id |-> 0, args |-> NoKeys, error |-> "none",
             ret |-> null, json |-> null]
  /\ edits = [s \in Sessions |-> Idle]

ConcNext ==
  \E s \in Sessions :
    \/ \E coll \in {"Product", "Order"} :
         \E id \in Ids(IF coll = "Product" THEN products ELSE orders) :
           \E change \in ConcurrentChanges(coll) : loadEdit(s, coll, id, change)
    \/ saveEdit(s)
    \/ replyEdit(s)

ConcSpec == ConcInit /\ [][ConcNext]_vars

\* ----------------------------------------------------------- properties
Store(coll) == IF coll = "Product" THEN products ELSE orders

StoreAfter(coll) == IF coll = "Product" THEN products' ELSE orders'

\* C1: edit(id, changes) with an id that matches no stored record fails with
\* a NotFoundError, whatever the changes, and leaves both collections as
\* they were.
C1_EditAbsentIsNotFound ==
  [][(resp'.op = "edit" /\ FindById(Store(resp'.coll), resp'.id) = null)
       => (resp'.error = "NotFoundError" /\ products' = products /\ orders' = orders)]_vars

\* C3: a DELETE request that ends without error answers {success: true},
\* for products and for orders, whether or not the record existed.
C3_DeleteAnswersSuccess ==
  (resp.op = "destroy" /\ resp.error = "none") => resp.json = [success |-> TRUE]

\* C7: an Order create whose products is omitted or empty fails with a
\* ValidationError and stores no order.
C7_CreateNeedsProducts ==
  (resp.op = "create" /\ resp.coll = "Order"
     /\ (~Has(resp.args, {"products"}) \/ resp.args.products = << >>))
    => (resp.error = "ValidationError" /\ resp.id \notin Ids(orders))

C4_DestroyIdempotent ==
  [][resp'.op = "destroy"
       => /\ resp'.error = "none"
          /\ products' = IF resp'.coll = "Product"
                         THEN {d \in products : d._id # resp'.id} ELSE products
          /\ orders' = IF resp'.coll = "Order"
                       THEN {d \in orders : d._id # resp'.id} ELSE orders
          /\ resp'.coll = "Product"
               => /\ ProductsGet(products', resp'.id) = null
                  /\ ProductsDestroy(products', resp'.id).coll = products'
          /\ resp'.coll = "Order"
               => /\ OrdersGet(orders', products', resp'.id) = null
                  /\ OrdersDestroy(orders', resp'.id) = orders']_vars

\* A destroy of an identifier no product has, with another product stored.
C4_Witness ==
  /\ resp.op = "destroy" /\ resp.coll = "Product"
  /\ resp.ret.deletedCount = 0
  /\ products # {}

\* The record's fields of the data model: the version key is the library's.
Fields(doc) == DOMAIN doc \ {"_id", "__v"}

C8_NoCascade ==
  [][/\ (resp'.op = "destroy" /\ resp'.coll = "Product") => orders' = orders
     /\ (resp'.op = "get" /\ resp'.coll = "Order" /\ resp'.id \in Ids(orders'))
          => LET stored == FindById(orders', resp'.id)
                 named == SelectSeq(stored.products, LAMBDA p : p \in Ids(products'))
             IN /\ resp'.error = "none"
                /\ resp'.ret # null
                /\ Len(resp'.ret.products) = Len(named)
                /\ \A i \in 1..Len(named) :
                     /\ resp'.ret.products[i] \in products'
                     /\ resp'.ret.products[i]._id = named[i]
                /\ \A k \in DOMAIN stored \ {"products"} : resp'.ret[k] = stored[k]]_vars

\* get of an order whose first product is gone and whose second is stored.
C8_Witness ==
  /\ resp.op = "get" /\ resp.coll = "Order" /\ resp.error = "none"
  /\ resp.id \in Ids(orders)
  /\ FindById(orders, resp.id).products = <<2, 1>>
  /\ Ids(products) = {1}
  /\ Len(resp.ret.products) = 1

\* C9: a stored record stays under its identifier until it is destroyed, a
\* record appears under an identifier only by a create, and no two records
\* of a collection share an identifier; so also when the changes of an edit
\* name the identifier.
C9_IdentifierImmutable ==
  [][\A coll \in {"Product", "Order"} :
       /\ \A d \in Store(coll) :
            \/ d._id \in Ids(StoreAfter(coll))
            \/ (resp'.op = "destroy" /\ resp'.coll = coll /\ resp'.id = d._id)
       /\ \A e \in StoreAfter(coll) :
            \/ e._id \in Ids(Store(coll))
            \/ (resp'.op = "create" /\ resp'.coll = coll /\ resp'.id = e._id)
       /\ \A d, e \in StoreAfter(coll) : d._id = e._id => d = e]_vars

\* An edit whose changes name another identifier ended without error.
C9_Witness ==
  /\ resp.op = "edit" /\ resp.error = "none"
  /\ Has(resp.args, {"_id"}) /\ resp.args._id # resp.id
  /\ resp.id \in Ids(Store(resp.coll))

\* The pages of a listing: what list returns for a filter, an offset and a
\* limit, against the records the filter matches ranked by identifier.
ProductMatches(q) ==
  {d \in products : Has(q, {"tag"}) => [title |-> q.tag] \in Range(d.tags)}

OrderMatches(q) ==
  {d \in orders : /\ Has(q, {"productId"}) => \E i \in 1..Len(d.products) : d.products[i] = q.productId
                  /\ Has(q, {"status"}) => d.status = q.status}

PageOf(page, matches, offset, n) ==
  LET rank(d) == Cardinality({e \in matches : e._id < d._id})
  IN /\ Len(page) <= n
     /\ \A i, j \in 1..Len(page) : i < j => page[i]._id < page[j]._id
     /\ Range(page) = {d \in matches : offset <= rank(d) /\ rank(d) < offset + n}

ProductFilters == {NoKeys, [tag |-> "studio"]}

OrderFilters ==
  {NoKeys, [productId |-> 1], [status |-> "PENDING"],
   [productId |-> 2, status |-> "CREATED"]}

Paged(q, offset, n) == With(With(q, "offset", offset), "limit", n)

\* C6: list(offset, limit = N) returns at most N records, ascending by
\* identifier: the records ranked offset .. offset+N-1 among those the
\* filter matches; so the pages at offsets 0, N, 2N, ... are disjoint and
\* together are all of them.
C6_ListPages ==
  \A offset \in 0..MaxOffset, n \in 0..MaxLimit :
    /\ \A q \in ProductFilters :
         PageOf(ProductsList(products, Paged(q, offset, n)), ProductMatches(q), offset, n)
    /\ \A q \in OrderFilters :
         PageOf(OrdersList(orders, Paged(q, offset, n)), OrderMatches(q), offset, n)

\* The same for a limit of at least 1, and for the default limit.
ListPagesPositive ==
  \A offset \in 0..MaxOffset, n \in (1..MaxLimit) \cup {DefaultLimit} :
    /\ \A q \in ProductFilters :
         PageOf(ProductsList(products, Paged(q, offset, n)), ProductMatches(q), offset, n)
    /\ \A q \in OrderFilters :
         PageOf(OrdersList(orders, Paged(q, offset, n)), OrderMatches(q), offset, n)

\* A step that is the save of session s's edit of a record still stored.
Saves(s) ==
  /\ edits[s].pc = "loaded" /\ edits'[s].pc = "saved"
  /\ edits[s].id \in Ids(Store(edits[s].coll))

Arrays(coll) == IF coll = "Product" THEN ProductArrays ELSE OrderArrays

\* C10: concurrent edits of a record interleave their load and save steps
\* freely; every edit succeeds, and after a save the fields it wrote hold
\* the values it wrote, so a field written by two edits holds the value of
\* the save that ran last.
C10_LastWriteWins ==
  [][\A s \in Sessions :
       Saves(s) => /\ edits'[s].error = "none"
                   /\ \A k \in DOMAIN edits[s].change :
                        FindById(StoreAfter(edits[s].coll), edits[s].id)[k]
                          = edits[s].change[k]]_vars

\* The fields an edit changes from the document it loaded.  An order is
\* loaded with its products populated, and an array of identifiers assigned
\* to it is a change unless both are empty.
Changed(e) ==
  {k \in DOMAIN e.change :
     IF e.coll = "Order" /\ k = "products"
     THEN ~(e.change.products = << >> /\ e.doc.products = << >>)
     ELSE e.change[k] # e.doc[k]}

\* C10 as amended: every edit that overwrites no array field succeeds, and
\* after a save the fields it changed from the document it loaded hold the
\* values it wrote, every other field the value stored before the save.  A
\* save that overwrites an array field (tags of a product, products of an
\* order) does so when the record's version key is the one it loaded;
\* otherwise it fails with a VersionError and the record stays as it was.
C10_LastChangeWins ==
  [][\A s \in Sessions :
       Saves(s) =>
         LET e == edits[s]
             stored == FindById(Store(e.coll), e.id)
             after == FindById(StoreAfter(e.coll), e.id)
             stale == /\ Changed(e) \cap Arrays(e.coll) # {}
                      /\ stored.__v # e.doc.__v
         IN IF stale
            THEN edits'[s].error = "VersionError" /\ after = stored
            ELSE /\ edits'[s].error = "none"
                 /\ \A k \in Changed(e) : after[k] = e.change[k]
                 /\ \A k \in Fields(stored) \ Changed(e) : after[k] = stored[k]]_vars

\* Two edits of tags of one product, both loaded before either saved: the
\* first save went through, the second met the version key it had moved.
C10_Witness ==
  /\ \A s \in Sessions :
       /\ edits[s].pc = "saved" /\ edits[s].coll = "Product" /\ edits[s].id = 1
       /\ edits[s].doc.__v = 0
       /\ "tags" \in DOMAIN edits[s].change
  /\ edits["a"].error = "none"
  /\ edits["b"].error = "VersionError"
  /\ edits["a"].change.tags # edits["b"].change.tags
  /\ FindById(products, 1).tags = edits["a"].change.tags

====
